---- MODULE Spec2Model ----
(***************************************************************************)
(* A model of poly_sampler/dodecahedral_sampler.py: the DodecahedralSampler *)
(* that projects an equirectangular panorama onto the twelve pentagonal     *)
(* faces of a dodecahedron and composes the faces into flat nets.           *)
(*                                                                         *)
(* Conventions of the model                                                *)
(*  - float64 values are fixed-point integers with FP units per 1.0;        *)
(*    int(x) and astype(int) truncate toward zero (Trunc).                  *)
(*  - angles that the code writes as multiples of pi/5 are counted in       *)
(*    units of pi/5 (36 degrees).                                           *)
(*  - a numpy array of zeros is a record [shape, data] whose data maps the  *)
(*    pixels written so far to their values; every other pixel is Zero4.    *)
(*  - a Python exception is a return record [kind |-> "error", ...].        *)
(***************************************************************************)
EXTENDS Integers, Sequences, FiniteSets, TLC

VARIABLES
    self,     \* the constructed DodecahedralSampler (its instance attributes)
    call,     \* the public method being executed and its arguments
    pc,       \* position inside the executing method
    xyz,      \* the local `xyz` of get_face_rgb (the projected point cloud)
    colors,   \* the list `colors` of per-face colour buffers (unwrap family)
    canvases, \* the output arrays allocated by the executing method
    placed,   \* history: <<face, canvas name>> of every face written so far
    ret       \* what the method returned or raised

vars == <<self, call, pc, xyz, colors, canvases, placed, ret>>

(***************************************************************************)
(* Bounds of the model.                                                    *)
(***************************************************************************)
MaxResolution == 5
MaxPanoHeight == 2
MaxRotation == 50
MaxFaceNo == 13

(***************************************************************************)
(* float64 arithmetic.                                                     *)
(***************************************************************************)
FP == 100 * 100

Abs(n) == IF n < 0 THEN -n ELSE n

\* F(e) with e evaluated once, as an assignment to a local does: the bound
\* variable of the set constructor holds the value of e
Bind(e, F(_)) == CHOOSE r \in {F(x) : x \in {e}} : TRUE

\* int(x), ndarray.astype(int): truncation toward zero of n/d (d > 0)
Trunc(n, d) == IF n >= 0 THEN n \div d ELSE -((-n) \div d)

\* np.sin(2*pi/5), np.cos(2*pi/5), np.tan(pi/5), np.sin(pi/5) in FP units
SIN72 == 9511
COS72 == 3090
TAN36 == 7265
SIN36 == 5878
COS36 == 8090

\* np.sin / np.cos of k*pi/5, in FP units
NormUnits(k) == ((k % 10) + 10) % 10

SinUnits(k) ==
    CASE NormUnits(k) = 0 -> 0
      [] NormUnits(k) = 1 -> SIN36
      [] NormUnits(k) = 2 -> SIN72
      [] NormUnits(k) = 3 -> SIN72
      [] NormUnits(k) = 4 -> SIN36
      [] NormUnits(k) = 5 -> 0
      [] NormUnits(k) = 6 -> -SIN36
      [] NormUnits(k) = 7 -> -SIN72
      [] NormUnits(k) = 8 -> -SIN72
      [] NormUnits(k) = 9 -> -SIN36

CosUnits(k) ==
    CASE NormUnits(k) = 0 -> FP
      [] NormUnits(k) = 1 -> COS36
      [] NormUnits(k) = 2 -> COS72
      [] NormUnits(k) = 3 -> -COS72
      [] NormUnits(k) = 4 -> -COS36
      [] NormUnits(k) = 5 -> -FP
      [] NormUnits(k) = 6 -> -COS36
      [] NormUnits(k) = 7 -> -COS72
      [] NormUnits(k) = 8 -> COS72
      [] NormUnits(k) = 9 -> COS36

(***************************************************************************)
(* __init__ : the constants derived from the resolution, the face table    *)
(* and the vertices.                                                       *)
(***************************************************************************)
\* the face table with a vertex repeated in the bottom face
faces_repeated ==
    << <<0,1,2,3,4>>,
       <<0,5,11,6,1>>, <<1,6,10,7,2>>, <<2,7,14,8,3>>, <<3,8,13,9,4>>, <<4,9,12,5,0>>,
       <<15,10,7,14,19>>, <<19,14,8,13,18>>, <<18,13,9,12,17>>, <<17,12,5,11,16>>,
       <<16,11,6,10,15>>,
       <<19,18,17,16,16>> >>

faces ==
    << <<0,1,2,3,4>>,
       <<0,5,11,6,1>>, <<1,6,10,7,2>>, <<2,7,14,8,3>>, <<3,8,13,9,4>>, <<4,9,12,5,0>>,
       <<15,10,7,14,19>>, <<19,14,8,13,18>>, <<18,13,9,12,17>>, <<17,12,5,11,16>>,
       <<16,11,6,10,15>>,
       <<19,18,17,16,15>> >>

\* utils.rotate_on_axis(v, "y", i * 2*pi/5): the vertex v turned by i steps of 72 degrees
rotate_on_axis(v, i) == [v EXCEPT !.step = (v.step + i) % 5]

\* the point reflection [-x, -y, -z] of a vertex
Negated(v) == [v EXCEPT !.sign = -v.sign]

RECURSIVE AppendRotations(_, _, _, _)
AppendRotations(vs, base, i, last) ==
    IF i > last THEN vs
    ELSE AppendRotations(Append(vs, rotate_on_axis(base, i)), base, i + 1, last)

RECURSIVE AppendReflections(_, _)
AppendReflections(vs, i) ==
    IF i < 0 THEN vs
    ELSE AppendReflections(Append(vs, Negated(vs[i + 1])), i - 1)

\* get_vertices: a vertex is [ring, step, sign]: the ring it lies on (the top
\* cap y0 or the middle ring y5), its rotation about the polar axis in steps
\* of 72 degrees and whether it is reflected through the origin
get_vertices ==
    LET v0   == [ring |-> "y0", step |-> 0, sign |-> 1]
        cap  == AppendRotations(<<v0>>, v0, 1, 4)
        v5   == [ring |-> "y5", step |-> 0, sign |-> 1]
        mid  == AppendRotations(Append(cap, v5), v5, 1, 4)
    IN  AppendReflections(mid, 9)

DodecahedralSampler(resolution) ==
    LET scaled_edge_length == resolution
        h  == scaled_edge_length * SIN72
        l  == scaled_edge_length * COS72
        pentagon_l == Trunc(2 * l + scaled_edge_length * FP, FP)
        height_to_centre == (scaled_edge_length * FP * FP) \div (2 * TAN36)
        circum == (scaled_edge_length * FP * FP) \div (2 * SIN36)
    IN  [ resolution        |-> resolution,
          scaled_edge_length |-> scaled_edge_length,
          h                 |-> h,
          l                 |-> l,
          pentagon_l        |-> pentagon_l,
          height_to_centre  |-> height_to_centre,
          pentagon_h        |-> Trunc(height_to_centre + circum, FP),
          circumradius      |-> Trunc(circum, FP),
          faces             |-> faces,
          vertices          |-> get_vertices ]

(***************************************************************************)
(* get_is_up, get_rotation                                                 *)
(***************************************************************************)
Error(name) == [kind |-> "error", error |-> name]

Value(v) == [kind |-> "value", value |-> v]

IsError(r) == r.kind = "error"

\* get_is_up without the bottom face
get_is_up_upper_ring(face_no) == 0 < face_no /\ face_no < 6

\* get_is_up with the lower comparison made inclusive
get_is_up_inclusive(face_no) == (0 <= face_no /\ face_no < 6) \/ (face_no = 11)

get_is_up(face_no) == (0 < face_no /\ face_no < 6) \/ (face_no = 11)

\* get_rotation whose lower-ring branch counts from face 5 instead of face 6
get_rotation_shifted(face_no) ==
    IF (face_no = 0) \/ (face_no = 11) THEN [kind |-> "value", value |-> 0]
    ELSE IF 0 < face_no /\ face_no < 6
    THEN [kind |-> "value", value |-> 6 + (face_no - 1) * 2]
    ELSE IF 6 <= face_no /\ face_no < 11
    THEN [kind |-> "value", value |-> -4 - (face_no - 5) * 2]
    ELSE [kind |-> "error", error |-> "UnboundLocalError"]

\* the rotation offset in units of pi/5; when no branch assigns
\* rotation_offset, `return rotation_offset` raises UnboundLocalError
get_rotation(face_no) ==
    IF (face_no = 0) \/ (face_no = 11) THEN [kind |-> "value", value |-> 0]
    ELSE IF 0 < face_no /\ face_no < 6
    THEN [kind |-> "value", value |-> 6 + (face_no - 1) * 2]
    ELSE IF 6 <= face_no /\ face_no < 11
    THEN [kind |-> "value", value |-> -4 - (face_no - 6) * 2]
    ELSE [kind |-> "error", error |-> "UnboundLocalError"]

(***************************************************************************)
(* get_pentagon_coords                                                     *)
(***************************************************************************)
\* pentagon.astype(np.int32): the two contours; drawContours takes the one
\* at index int(is_up)
PentagonPoints(s, is_up) ==
    IF ~is_up
    THEN << <<Trunc(s.l, FP), 0>>,
            <<Trunc(s.pentagon_l * FP - s.l, FP), 0>>,
            <<s.pentagon_l, Trunc(s.h, FP)>>,
            <<Trunc(s.pentagon_l * FP, 2 * FP), s.pentagon_h>>,
            <<0, Trunc(s.h, FP)>> >>
    ELSE << <<Trunc(s.l, FP), s.pentagon_h>>,
            <<Trunc(s.pentagon_l * FP - s.l, FP), s.pentagon_h>>,
            <<s.pentagon_l, Trunc(s.pentagon_h * FP - s.h, FP)>>,
            <<Trunc(s.pentagon_l * FP, 2 * FP), 0>>,
            <<0, Trunc(s.pentagon_h * FP - s.h, FP)>> >>

Cross(a, b, p) == (b[1] - a[1]) * (p[2] - a[2]) - (b[2] - a[2]) * (p[1] - a[1])

Between(v, a, b) == (a <= v /\ v <= b) \/ (b <= v /\ v <= a)

\* p is a pixel of the 8-connected line cv2 draws from a to b
OnLine(p, a, b) ==
    LET dx == b[1] - a[1]
        dy == b[2] - a[2]
    IN  IF dx = 0 /\ dy = 0 THEN p = a
        ELSE IF Abs(dx) >= Abs(dy)
        THEN Between(p[1], a[1], b[1])
             /\ 2 * Abs((p[2] - a[2]) * dx - (p[1] - a[1]) * dy) <= Abs(dx)
        ELSE Between(p[2], a[2], b[2])
             /\ 2 * Abs((p[1] - a[1]) * dy - (p[2] - a[2]) * dx) <= Abs(dy)

\* cv2.drawContours(..., thickness=-1): the outline and the interior
InContour(p, pts) ==
    LET n == Len(pts)
        nxt(i) == pts[(i % n) + 1]
    IN  \/ \A i \in 1..n : Cross(pts[i], nxt(i), p) >= 0
        \/ \A i \in 1..n : Cross(pts[i], nxt(i), p) <= 0
        \/ \E i \in 1..n : OnLine(p, pts[i], nxt(i))

\* np.argwhere(canvas == 1)[:, ::-1]: the filled pixels <<x, y>> of the
\* pentagon_h x pentagon_l canvas in row-major order
RasterCoords(s, is_up) ==
    LET grid == [i \in 1..(s.pentagon_h * s.pentagon_l) |->
                    <<(i - 1) % s.pentagon_l, (i - 1) \div s.pentagon_l>>]
    IN  Bind(PentagonPoints(s, is_up),
             LAMBDA pts : SelectSeq(grid, LAMBDA p : InContour(p, pts)))

\* get_pentagon_coords(base_resolution, is_up, center, normalize, homogeneous).
\* A normalized coordinate is the pair <<numerator, pentagon_l>>.
get_pentagon_coords(s, base_resolution, is_up, center, normalize, homogeneous) ==
    LET dx  == IF center THEN s.pentagon_l \div 2 ELSE 0
        dy  == IF ~center THEN 0
               ELSE IF is_up THEN Trunc(s.pentagon_h * FP - s.height_to_centre, FP)
               ELSE Trunc(s.height_to_centre, FP)
        den == IF normalize THEN s.pentagon_l ELSE 1
    IN  Bind(RasterCoords(s, is_up), LAMBDA raw :
          [k \in 1..Len(raw) |->
            [x |-> raw[k][1] - dx, y |-> raw[k][2] - dy, den |-> den,
             w |-> IF homogeneous THEN 1 ELSE 0]])

(***************************************************************************)
(* numpy indexing and the panorama.                                        *)
(***************************************************************************)
\* an index i into an axis of length n: valid when -n <= i < n, and a
\* negative index counts from the end
IndexOk(i, n) == -n <= i /\ i < n

WrapIndex(i, n) == IF i < 0 THEN i + n ELSE i

\* the pixel eq_image[row, col]: three channels
ImagePixel(eq_image, row, col) ==
    << 1 + ((row * eq_image.shape[2] + col) % 255), row, col >>

\* utils.check_eq_image_shape: the image is a non-empty pixel grid whose
\* width is twice its height
check_eq_image_shape(eq_image) ==
    /\ eq_image.shape[1] > 0
    /\ eq_image.shape[2] = 2 * eq_image.shape[1]

(***************************************************************************)
(* get_face_xyz                                                            *)
(***************************************************************************)
\* sqrt(sphere_radius^2 - top_circumradius^2) for an edge of length 1
Z_SCALE == 11135

\* utils.xyz_2_polar(norm_center): azimuth and elevation of the centre of a
\* face, in FP units of pi/5 (top face, upper ring, lower ring, bottom face)
FaceCentrePolar(face) ==
    IF face = 0 THEN [phi |-> 0, theta |-> 25000]
    ELSE IF face = 11 THEN [phi |-> 0, theta |-> -25000]
    ELSE IF face < 6 THEN [phi |-> (2 * (face - 1) - 4) * FP, theta |-> 7379]
    ELSE [phi |-> (2 * (face - 6) - 3) * FP, theta |-> -7379]

\* get_face_xyz(face_no): the pentagon point cloud and the rotation
\* R.from_euler('yxz', [-phi, theta, z_rotation_offset]) it is multiplied by
get_face_xyz(s, face_no) ==
    IF ~IndexOk(face_no, Len(s.faces)) THEN Error("IndexError")
    ELSE
      LET face   == WrapIndex(face_no, Len(s.faces))
          vertex_xyz == [i \in 1..5 |-> s.vertices[s.faces[face + 1][i] + 1]]
          xy_scale_factor == 2 * s.l + s.resolution * FP
          z_scale_factor  == s.resolution * Z_SCALE
          centre == FaceCentrePolar(face)
          z_rotation_offset == get_rotation(face_no)
      IN  Bind(get_pentagon_coords(s, s.resolution, get_is_up(face_no), TRUE, TRUE, TRUE),
               LAMBDA coords :
          IF IsError(z_rotation_offset) THEN z_rotation_offset
          ELSE Value([ points |-> [k \in 1..Len(coords) |->
                                     [x |-> Trunc(coords[k].x * xy_scale_factor, coords[k].den),
                                      y |-> Trunc(coords[k].y * xy_scale_factor, coords[k].den),
                                      z |-> coords[k].w * z_scale_factor]],
                       vertex_xyz |-> vertex_xyz,
                       euler  |-> [phi |-> -centre.phi, theta |-> centre.theta,
                                   z |-> z_rotation_offset.value] ]))

(***************************************************************************)
(* get_face_rgb                                                            *)
(***************************************************************************)
\* utils.xyz_2_polar(ray_xyz): azimuth and elevation (FP units of pi/5) of
\* the ray through a point of the rotated face: the point is turned in the
\* face plane by euler.z and seen from the centre under its tangent angles
xyz_2_polar(pt, euler) ==
    LET u == Trunc(pt.x * CosUnits(euler.z) - pt.y * SinUnits(euler.z), FP)
        v == Trunc(pt.x * SinUnits(euler.z) + pt.y * CosUnits(euler.z), FP)
    IN  [phi   |-> -euler.phi + Trunc(u * 15915, pt.z),
         theta |-> euler.theta - Trunc(v * 15915, pt.z)]

\* utils.polar_2_equi(phi, theta, shape): fractional pixel coordinates, FP units
polar_2_equi(phi, theta, shape) ==
    [x |-> Trunc(phi * shape[2], 10) + Trunc(shape[2] * FP, 2),
     y |-> Trunc(shape[1] * FP, 2) - Trunc(theta * shape[1], 5)]

\* a remainder that takes the sign of the dividend, as C's % does
TruncatedRemainder(a, n) == IF a >= 0 THEN a % n ELSE -((-a) % n)

\* x.astype(int) % n and y.astype(int) % n: Python's % takes the sign of n
PyMod(a, n) == a % n

\* <<y.astype(int), x.astype(int)>> for one point of the face (lines 282-286)
RawIndex(pt, euler, eq_image, rotation_offset) ==
    LET polar == xyz_2_polar(pt, euler)
        phi   == polar.phi + rotation_offset * FP
        xy    == polar_2_equi(phi, polar.theta, eq_image.shape)
    IN  << Trunc(xy.y, FP), Trunc(xy.x, FP) >>

\* the indices <<row, col>> used to read the panorama for one point (line 286)
SampleIndex(pt, euler, eq_image, rotation_offset) ==
    Bind(RawIndex(pt, euler, eq_image, rotation_offset), LAMBDA raw :
         << PyMod(raw[1], eq_image.shape[1]), PyMod(raw[2], eq_image.shape[2]) >>)

\* lines 279-289 of get_face_rgb: the colours read for the point cloud
SampleRgb(cloud, eq_image, rotation_offset) ==
    Bind([k \in 1..Len(cloud.points) |->
             SampleIndex(cloud.points[k], cloud.euler, eq_image, rotation_offset)],
         LAMBDA idx :
        IF \E k \in 1..Len(idx) :
              ~IndexOk(idx[k][1], eq_image.shape[1]) \/ ~IndexOk(idx[k][2], eq_image.shape[2])
        THEN Error("IndexError")
        ELSE Value([k \in 1..Len(idx) |->
                      ImagePixel(eq_image, WrapIndex(idx[k][1], eq_image.shape[1]),
                                           WrapIndex(idx[k][2], eq_image.shape[2]))]))

get_face_rgb(s, face_no, eq_image, rotation_offset) ==
    IF ~check_eq_image_shape(eq_image) THEN Error("ShapeValidationError")
    ELSE Bind(get_face_xyz(s, face_no), LAMBDA cloud :
              IF IsError(cloud) THEN cloud
              ELSE SampleRgb(cloud.value, eq_image, rotation_offset))

(***************************************************************************)
(* Canvases.                                                               *)
(***************************************************************************)
Zero4 == <<0, 0, 0, 0>>

\* np.zeros([height, length, 4], dtype=np.uint8)
Zeros(height, length) == [shape |-> <<height, length>>, data |-> <<>>]

\* canvas[row, col]
At(canvas, row, col) ==
    IF <<row, col>> \in DOMAIN canvas.data THEN canvas.data[<<row, col>>] ELSE Zero4

\* the pair of statements
\*     canvas[xy[..., 1] + y_offset, xy[..., 0] + x_offset, 2::-1] = rgb
\*     canvas[xy[..., 1] + y_offset, xy[..., 0] + x_offset, 3] = 255
\* an index outside [-n, n) raises IndexError, a negative one counts from the
\* end, and rgb must hold one colour per indexed pixel
WriteFace(canvas, xy, x_offset, y_offset, rgb) ==
    LET n   == Len(xy)
        row(k) == xy[k].y + y_offset
        col(k) == xy[k].x + x_offset
    IN  IF \E k \in 1..n : ~IndexOk(row(k), canvas.shape[1]) \/ ~IndexOk(col(k), canvas.shape[2])
        THEN Error("IndexError")
        ELSE IF Len(rgb) # n THEN Error("ValueError")
        ELSE
          LET tgt(k) == << WrapIndex(row(k), canvas.shape[1]),
                          WrapIndex(col(k), canvas.shape[2]) >>
              last(p) == CHOOSE k \in 1..n : tgt(k) = p /\ \A j \in (k+1)..n : tgt(j) # p
          IN  Bind({tgt(k) : k \in 1..n}, LAMBDA hit :
                Value([canvas EXCEPT !.data =
                        [p \in hit \cup DOMAIN canvas.data |->
                            IF p \in hit
                            THEN << rgb[last(p)][3], rgb[last(p)][2], rgb[last(p)][1], 255 >>
                            ELSE canvas.data[p]]]))

(***************************************************************************)
(* The layouts of unwrap and half_unwrap: the offsets of every face.       *)
(***************************************************************************)
RECURSIVE Pow2Below(_)
\* the largest power of two that is smaller than n (n >= 2)
Pow2Below(n) == IF n <= 2 THEN 1 ELSE 2 * Pow2Below((n + 1) \div 2)

\* int(base + 2 * height_to_centre * np.sin(rot)) for rot = k * pi/5 and an
\* integer base. np.sin of the float nearest -pi is -1.22e-16: the float sum
\* is the float below base, unless the product is under half the spacing of
\* the floats below base and is absorbed.
IntBasePlusSin(s, base, k) ==
    IF k = -5
    THEN IF (2 * s.height_to_centre * 11031) \div FP > Pow2Below(base) * FP
         THEN base - 1 ELSE base
    ELSE Trunc(base * FP + Trunc(2 * s.height_to_centre * SinUnits(k), FP), FP)

\* scaled_edge_length / (2 * np.sin(np.pi / 5))
EdgeCircumradius(s) == (s.scaled_edge_length * FP * FP) \div (2 * SIN36)

\* half_unwrap with face 6 written along with the faces before it
NetCanvasThroughSix(half, face) ==
    IF ~half THEN "canvas"
    ELSE IF face <= 6 THEN "canvas_lower" ELSE "canvas_upper"

\* the array a face is written to: unwrap has one canvas; half_unwrap writes
\* face 0 and the upper ring 1..5 to canvas_lower (lines 416-430), face 11
\* and the lower ring 6..10 to canvas_upper (lines 432-446)
NetCanvas(half, face) ==
    IF ~half THEN "canvas"
    ELSE IF face < 6 THEN "canvas_lower" ELSE "canvas_upper"

\* lines 350-380 (unwrap) and 416-446 (half_unwrap): for each face the array
\* written, the mask used and the truncated offsets
NetPlacement(s, half, face) ==
    LET face_0_x_offset  == Trunc(s.pentagon_l * FP - s.l, FP)
        face_0_y_offset  == s.pentagon_h
        face_11_x_offset == IF half THEN Trunc(s.l + s.resolution * FP, FP)
                            ELSE Trunc(2 * (s.pentagon_l + s.resolution) * FP, FP)
        face_11_y_offset == Trunc(s.h, FP)
        y_center_offset  == s.height_to_centre - EdgeCircumradius(s)
        lower == NetCanvas(half, 0)
        upper == NetCanvas(half, 11)
    IN  IF face = 0
        THEN [canvas |-> lower, is_up |-> FALSE, x |-> face_0_x_offset, y |-> face_0_y_offset]
        ELSE IF face = 11
        THEN [canvas |-> upper, is_up |-> TRUE, x |-> face_11_x_offset, y |-> face_11_y_offset]
        ELSE IF face < 6
        THEN LET num == face - 1
                 rotational_offset == -1 - num * 2
             IN  [canvas |-> NetCanvas(half, face), is_up |-> TRUE,
                  x |-> IntBasePlusSin(s, face_0_x_offset, rotational_offset),
                  y |-> Trunc(face_0_y_offset * FP + y_center_offset
                              + Trunc(2 * s.height_to_centre * CosUnits(rotational_offset), FP), FP)]
        ELSE LET num == face - 6
                 rotational_offset == 1 - num * 2
             IN  [canvas |-> NetCanvas(half, face), is_up |-> FALSE,
                  x |-> IntBasePlusSin(s, face_11_x_offset, rotational_offset),
                  y |-> Trunc(face_11_y_offset * FP - y_center_offset
                              - Trunc(2 * s.height_to_centre * CosUnits(rotational_offset), FP), FP)]

\* the order in which the statements of unwrap and half_unwrap write the faces
NetOrder == <<0, 1, 2, 3, 4, 5, 11, 6, 7, 8, 9, 10>>

\* the canvas of unwrap without the margin of l pixels on its right
unwrap_shape_no_margin(s) ==
    << Trunc(2 * s.pentagon_h * FP + s.h, FP),
       Trunc(3 * (s.pentagon_l + s.resolution) * FP, FP) >>

\* canvas_height, canvas_length of unwrap (lines 339-340)
unwrap_shape(s) ==
    << Trunc(2 * s.pentagon_h * FP + s.h, FP),
       Trunc(3 * (s.pentagon_l + s.resolution) * FP + s.l, FP) >>

\* canvas_height, canvas_length of half_unwrap (lines 404-405)
half_unwrap_shape(s) ==
    << Trunc(2 * s.pentagon_h * FP + s.h, FP),
       Trunc((2 * s.pentagon_l + s.resolution) * FP, FP) >>

(***************************************************************************)
(* a4_optimised_unwrap: the rotated-face helper and the layout.            *)
(***************************************************************************)
\* array[rows, cols] for index arrays: IndexError outside [-n, n)
ReadPixels(array, xy, x_offset, y_offset) ==
    LET n == Len(xy)
        row(k) == xy[k].y + y_offset
        col(k) == xy[k].x + x_offset
    IN  IF \E k \in 1..n : ~IndexOk(row(k), array.shape[1]) \/ ~IndexOk(col(k), array.shape[2])
        THEN Error("IndexError")
        ELSE Value([k \in 1..n |-> At(array, WrapIndex(row(k), array.shape[1]),
                                             WrapIndex(col(k), array.shape[2]))])

\* canvas[xy[..., 1] + y_offset, xy[..., 0] + x_offset] = rotated_rgba
WritePixels(canvas, xy, x_offset, y_offset, rgba) ==
    LET n   == Len(xy)
        row(k) == xy[k].y + y_offset
        col(k) == xy[k].x + x_offset
    IN  IF \E k \in 1..n : ~IndexOk(row(k), canvas.shape[1]) \/ ~IndexOk(col(k), canvas.shape[2])
        THEN Error("IndexError")
        ELSE IF Len(rgba) # n THEN Error("ValueError")
        ELSE
          LET tgt(k) == << WrapIndex(row(k), canvas.shape[1]),
                          WrapIndex(col(k), canvas.shape[2]) >>
              last(p) == CHOOSE k \in 1..n : tgt(k) = p /\ \A j \in (k+1)..n : tgt(j) # p
          IN  Bind({tgt(k) : k \in 1..n}, LAMBDA hit :
                Value([canvas EXCEPT !.data =
                        [p \in hit \cup DOMAIN canvas.data |->
                            IF p \in hit
                            THEN rgba[last(p)]
                            ELSE canvas.data[p]]]))

\* cv2.warpAffine(src, cv2.getRotationMatrix2D((c, c), rotation_deg, 1), (n, n))
\* for a multiple of 36 degrees: every destination pixel is read at the
\* source position M^-1 (x, y), rounded to 1/32 of a pixel, and interpolated
\* bilinearly between its four neighbours; outside the source the value is 0
warpAffine(src, c, rotation_deg) ==
    LET alpha == CosUnits(rotation_deg \div 36)
        beta  == SinUnits(rotation_deg \div 36)
        n     == src.shape[1]
        px(row, col) == IF 0 <= row /\ row < n /\ 0 <= col /\ col < n
                        THEN At(src, row, col) ELSE Zero4
        value(row, col) ==
            LET sx == alpha * (col - c) - beta * (row - c) + c * FP
                sy == beta * (col - c) + alpha * (row - c) + c * FP
                X  == (sx * 32 + FP \div 2) \div FP
                Y  == (sy * 32 + FP \div 2) \div FP
                x0 == X \div 32
                y0 == Y \div 32
                fx == X % 32
                fy == Y % 32
                mix(at, ch) == ( px(at[2], at[1])[ch] * (32 - at[3]) * (32 - at[4])
                               + px(at[2], at[1] + 1)[ch] * at[3] * (32 - at[4])
                               + px(at[2] + 1, at[1])[ch] * (32 - at[3]) * at[4]
                               + px(at[2] + 1, at[1] + 1)[ch] * at[3] * at[4] + 512 ) \div 1024
            IN  Bind(<<x0, y0, fx, fy>>,
                     LAMBDA at : << mix(at, 1), mix(at, 2), mix(at, 3), mix(at, 4) >>)
    IN  [shape |-> <<n, n>>,
         data  |-> [p \in (0..(n-1)) \X (0..(n-1)) |-> value(p[1], p[2])]]

\* rotate_face_rgb(rgb, rotation_deg, is_up), lines 488-508
rotate_face_rgb(s, rgb, rotation_deg, is_up) ==
    LET padded_rgb   == Zeros(2 * s.circumradius, 2 * s.circumradius)
        padding_top  == IF is_up THEN 0
                        ELSE Trunc(s.circumradius * FP - s.height_to_centre, FP)
        padding_left == Trunc(2 * s.circumradius * FP - s.pentagon_l * FP, 2 * FP)
    IN  Bind(get_pentagon_coords(s, s.resolution, is_up, FALSE, FALSE, FALSE), LAMBDA xy :
        Bind(WriteFace(padded_rgb, xy, padding_left, padding_top, rgb), LAMBDA w :
             IF IsError(w) THEN w
             ELSE Value(warpAffine(w.value, s.circumradius, rotation_deg))))

\* canvas_height, canvas_length of a4_optimised_unwrap (lines 515-516)
a4_shape(s) ==
    << Trunc(2 * s.pentagon_h * FP + s.h, FP),
       Trunc(3 * (s.pentagon_l + s.scaled_edge_length) * FP + s.l, FP) >>

\* a variant of the placement table that extracts face 11 through the mask of
\* its own orientation although it was turned by an odd multiple of 36 degrees
A4PlacementOwnMask(s, face) ==
    LET L   == s.pentagon_l * FP
        H   == s.pentagon_h * FP
        E   == s.scaled_edge_length * FP
        X0  == Trunc(2 * L + E - s.l, FP) * FP
        Y0  == Trunc(H + s.h, FP) * FP
        at(rot, up, x, y) == [rotation |-> rot, rotated_is_up |-> up,
                              x |-> Trunc(x, FP), y |-> Trunc(y, FP)]
    IN  CASE face = 0  -> at(0, FALSE, X0, Y0)
          [] face = 1  -> at(-72, TRUE, X0 - Trunc(3 * L, 2) + s.l, Y0)
          [] face = 2  -> at(-36, FALSE, X0 - L + s.l, Y0 - s.h)
          [] face = 3  -> at(0, TRUE, X0, Y0 - H)
          [] face = 4  -> at(36, FALSE, X0 + L - s.l, Y0 - s.h)
          [] face = 5  -> at(72, TRUE, X0 + Trunc(3 * L, 2) - s.l, Y0)
          [] face = 6  -> at(252, TRUE, X0 - L + s.l, Y0 - s.h - H)
          [] face = 7  -> at(108, TRUE, X0 + L - s.l, Y0 - s.h - H)
          [] face = 8  -> at(36, TRUE, X0 + L + E, Y0 - H)
          [] face = 9  -> at(0, FALSE, X0 - 3 * s.l - 3 * E, Y0 - s.h)
          [] face = 10 -> at(324, TRUE, X0 - 2 * s.l - 2 * E, Y0 - H)
          [] face = 11 -> at(324, TRUE, X0 - 3 * s.l - Trunc(5 * E, 2), Y0 - s.h - H)

\* lines 528-594: for each face the rotation in degrees, the orientation
\* of the mask after the rotation and the truncated offsets
A4Placement(s, face) ==
    LET L   == s.pentagon_l * FP
        H   == s.pentagon_h * FP
        E   == s.scaled_edge_length * FP
        face_0_x_offset == Trunc(2 * L + E - s.l, FP)
        face_0_y_offset == Trunc(H + s.h, FP)
        X0  == face_0_x_offset * FP
        Y0  == face_0_y_offset * FP
        at(rot, up, x, y) == [rotation |-> rot, rotated_is_up |-> up,
                              x |-> Trunc(x, FP), y |-> Trunc(y, FP)]
    IN  CASE face = 0  -> at(0, FALSE, X0, Y0)
          [] face = 1  -> at(-72 + 36 * 0, (0 + 1) % 2 = 1, X0 - Trunc(3 * L, 2) + s.l, Y0)
          [] face = 2  -> at(-72 + 36 * 1, (1 + 1) % 2 = 1, X0 - L + s.l, Y0 - s.h)
          [] face = 3  -> at(-72 + 36 * 2, (2 + 1) % 2 = 1, X0, Y0 - H)
          [] face = 4  -> at(-72 + 36 * 3, (3 + 1) % 2 = 1, X0 + L - s.l, Y0 - s.h)
          [] face = 5  -> at(-72 + 36 * 4, (4 + 1) % 2 = 1, X0 + Trunc(3 * L, 2) - s.l, Y0)
          [] face = 6  -> at(252, TRUE, X0 - L + s.l, Y0 - s.h - H)
          [] face = 7  -> at(108, TRUE, X0 + L - s.l, Y0 - s.h - H)
          [] face = 8  -> at(36, TRUE, X0 + L + E, Y0 - H)
          [] face = 9  -> at(0, FALSE, X0 - 3 * s.l - 3 * E, Y0 - s.h)
          [] face = 10 -> at(324, TRUE, X0 - 2 * s.l - 2 * E, Y0 - H)
          [] face = 11 -> at(324, FALSE, X0 - 3 * s.l - Trunc(5 * E, 2), Y0 - s.h - H)

\* the statements of a4_optimised_unwrap that place one face: rotate it,
\* read it back through the mask of its orientation after the rotation and
\* write it to the canvas
a4_place(s, canvas, face, rgb) ==
    LET padding_top  == Trunc(s.circumradius * FP - s.height_to_centre, FP)
        padding_left == Trunc(2 * s.circumradius * FP - s.pentagon_l * FP, 2 * FP)
    IN  Bind(A4Placement(s, face), LAMBDA at :
        Bind(get_pentagon_coords(s, s.resolution, at.rotated_is_up, FALSE, FALSE, FALSE),
             LAMBDA xy :
        Bind(rotate_face_rgb(s, rgb, at.rotation, get_is_up(face)), LAMBDA rotated_canvas :
             IF IsError(rotated_canvas) THEN rotated_canvas
             ELSE Bind(ReadPixels(rotated_canvas.value, xy, padding_left,
                                  IF at.rotated_is_up THEN 0 ELSE padding_top),
                       LAMBDA rotated_rgba :
                       IF IsError(rotated_rgba) THEN rotated_rgba
                       ELSE WritePixels(canvas, xy, at.x, at.y, rotated_rgba.value)))))

(***************************************************************************)
(* The inputs of the calls.                                                *)
(***************************************************************************)
\* the smallest edge for which the pentagon has an interior is 2 pixels
Resolutions == 2..MaxResolution

FaceNumbers == (-MaxFaceNo)..MaxFaceNo

\* rotation_offset, in units of pi/5: up to ten turns of pi either way
RotationOffsets == {-MaxRotation, 0, MaxRotation}

\* panoramas: shape <<height, width>>; some fail the shape validation
Images == UNION {{[shape |-> <<ht, 2 * ht>>], [shape |-> <<ht, 2 * MaxPanoHeight>>]} :
                    ht \in 0..MaxPanoHeight}

ValidatedOps == {"get_face_rgb", "get_face_image", "unwrap", "half_unwrap",
                 "a4_optimised_unwrap"}

NetOps == {"unwrap", "half_unwrap"}

(***************************************************************************)
(* The state machine: one public method runs at a time, statement by       *)
(* statement.                                                              *)
(***************************************************************************)
Init ==
    /\ self \in {DodecahedralSampler(r) : r \in Resolutions}
    /\ call = [op |-> "idle"]
    /\ pc = "idle"
    /\ xyz = <<>>
    /\ colors = <<>>
    /\ canvases = <<>>
    /\ placed = <<>>
    /\ ret = [kind |-> "none"]

\* a method that starts with its work and leaves the validation out
StartsWithWork(op) == IF op = "get_face_rgb" THEN "xyz" ELSE "colors"

\* the statement a method starts with: the five methods that take a
\* panorama start with utils.check_eq_image_shape(eq_image)
FirstStatement(op) == "validate"

\* the statement that follows a passed validation
AfterValidation(op) == IF op = "get_face_rgb" THEN "xyz" ELSE "colors"

Raise(e) ==
    /\ ret' = e
    /\ pc' = "done"

\* get_is_up(face_no)
GetIsUp ==
    /\ pc = "idle"
    /\ \E face_no \in FaceNumbers :
         /\ call' = [op |-> "get_is_up", face_no |-> face_no]
         /\ ret' = Value(get_is_up(face_no))
    /\ pc' = "done"
    /\ UNCHANGED <<self, xyz, colors, canvases, placed>>

\* get_rotation(face_no)
GetRotation ==
    /\ pc = "idle"
    /\ \E face_no \in FaceNumbers :
         /\ call' = [op |-> "get_rotation", face_no |-> face_no]
         /\ ret' = get_rotation(face_no)
    /\ pc' = "done"
    /\ UNCHANGED <<self, xyz, colors, canvases, placed>>

\* get_pentagon_coords(base_resolution, is_up, center, normalize, homogeneous)
GetPentagonCoords ==
    /\ pc = "idle"
    /\ \E base_resolution \in Resolutions, is_up, center, normalize, homogeneous \in BOOLEAN :
         /\ call' = [op |-> "get_pentagon_coords", base_resolution |-> base_resolution,
                     is_up |-> is_up, center |-> center, normalize |-> normalize,
                     homogeneous |-> homogeneous]
         /\ ret' = Value(get_pentagon_coords(self, base_resolution, is_up, center,
                                             normalize, homogeneous))
    /\ pc' = "done"
    /\ UNCHANGED <<self, xyz, colors, canvases, placed>>

\* get_face_xyz(face_no)
GetFaceXyz ==
    /\ pc = "idle"
    /\ \E face_no \in FaceNumbers :
         /\ call' = [op |-> "get_face_xyz", face_no |-> face_no]
         /\ ret' = get_face_xyz(self, face_no)
    /\ pc' = "done"
    /\ UNCHANGED <<self, xyz, colors, canvases, placed>>

\* a call of get_face_rgb or get_face_image
CallFace ==
    /\ pc = "idle"
    /\ \E op \in {"get_face_rgb", "get_face_image"}, face_no \in FaceNumbers,
          eq_image \in Images, rotation_offset \in RotationOffsets :
         /\ call' = [op |-> op, face_no |-> face_no, eq_image |-> eq_image,
                     rotation_offset |-> rotation_offset]
         /\ pc' = FirstStatement(op)
    /\ UNCHANGED <<self, xyz, colors, canvases, placed, ret>>

\* a call of unwrap, half_unwrap or a4_optimised_unwrap
CallUnwrap ==
    /\ pc = "idle"
    /\ \E op \in {"unwrap", "half_unwrap", "a4_optimised_unwrap"},
          eq_image \in Images, rotation_offset \in RotationOffsets :
         /\ call' = [op |-> op, eq_image |-> eq_image,
                     rotation_offset |-> rotation_offset]
         /\ pc' = FirstStatement(op)
    /\ UNCHANGED <<self, xyz, colors, canvases, placed, ret>>

\* utils.check_eq_image_shape(eq_image)
Validate ==
    /\ pc = "validate"
    /\ IF check_eq_image_shape(call.eq_image)
       THEN pc' = AfterValidation(call.op) /\ UNCHANGED ret
       ELSE Raise(Error("ShapeValidationError"))
    /\ UNCHANGED <<self, call, xyz, colors, canvases, placed>>

\* get_face_xyz scaling the sampler's l in place instead of a local factor
FaceXyzScalingSampler ==
    /\ pc = "xyz"
    /\ \E r \in {get_face_xyz(self, call.face_no)} :
           IF IsError(r)
           THEN Raise(r) /\ UNCHANGED <<xyz, self>>
           ELSE /\ xyz' = r.value /\ pc' = "sample" /\ UNCHANGED ret
                /\ self' = [self EXCEPT !.l = 2 * self.l + self.resolution * FP]
    /\ UNCHANGED <<call, colors, canvases, placed>>

\* get_face_rgb, line 276: xyz = self.get_face_xyz(face_no)
FaceXyz ==
    /\ pc = "xyz"
    /\ \E r \in {get_face_xyz(self, call.face_no)} :
           IF IsError(r)
           THEN Raise(r) /\ UNCHANGED xyz
           ELSE xyz' = r.value /\ pc' = "sample" /\ UNCHANGED ret
    /\ UNCHANGED <<self, call, colors, canvases, placed>>

\* get_face_rgb, lines 279-289: cast the rays, read the panorama, return rgb
Sample ==
    /\ pc = "sample"
    /\ ret' = SampleRgb(xyz, call.eq_image, call.rotation_offset)
    /\ pc' = "done"
    /\ UNCHANGED <<self, call, xyz, colors, canvases, placed>>

\* colors = self.get_face_rgb(face_no, ...)            (get_face_image)
\* colors = [self.get_face_rgb(i, ...) for i in range(12)]   (the unwraps)
Colors ==
    /\ pc = "colors"
    /\ IF call.op = "get_face_image"
       THEN \E one \in {get_face_rgb(self, call.face_no, call.eq_image,
                                      call.rotation_offset)} :
                IF IsError(one) THEN Raise(one) /\ UNCHANGED colors
                ELSE colors' = one.value /\ pc' = "alloc" /\ UNCHANGED ret
       ELSE \E all \in {[i \in 1..12 |->
                           get_face_rgb(self, i - 1, call.eq_image, call.rotation_offset)]} :
                IF \E i \in 1..12 : IsError(all[i])
                THEN Raise(all[CHOOSE i \in 1..12 :
                                 IsError(all[i]) /\ \A j \in 1..(i-1) : ~IsError(all[j])])
                     /\ UNCHANGED colors
                ELSE colors' = [i \in 1..12 |-> all[i].value]
                     /\ pc' = "alloc" /\ UNCHANGED ret
    /\ UNCHANGED <<self, call, xyz, canvases, placed>>

\* canvas = np.zeros([...]) and its siblings
Alloc ==
    /\ pc = "alloc"
    /\ canvases' =
         CASE call.op = "get_face_image" ->
                [canvas |-> Zeros(self.pentagon_h, self.pentagon_l)]
           [] call.op = "unwrap" ->
                [canvas |-> Zeros(unwrap_shape(self)[1], unwrap_shape(self)[2])]
           [] call.op = "half_unwrap" ->
                [canvas_upper |-> Zeros(half_unwrap_shape(self)[1], half_unwrap_shape(self)[2]),
                 canvas_lower |-> Zeros(half_unwrap_shape(self)[1], half_unwrap_shape(self)[2])]
           [] call.op = "a4_optimised_unwrap" ->
                [canvas |-> Zeros(a4_shape(self)[1], a4_shape(self)[2])]
    /\ pc' = "place"
    /\ UNCHANGED <<self, call, xyz, colors, placed, ret>>

\* get_face_image, lines 311-315: the face is written through its own mask
PlaceImage ==
    /\ pc = "place"
    /\ call.op = "get_face_image"
    /\ \E xy \in {get_pentagon_coords(self, self.resolution, get_is_up(call.face_no),
                                        FALSE, FALSE, FALSE)} :
       \E w \in {WriteFace(canvases.canvas, xy, 0, 0, colors)} :
           IF IsError(w)
           THEN Raise(w) /\ UNCHANGED <<canvases, placed>>
           ELSE /\ canvases' = [canvases EXCEPT !.canvas = w.value]
                /\ placed' = Append(placed, <<call.face_no, "canvas">>)
                /\ pc' = "return"
                /\ UNCHANGED ret
    /\ UNCHANGED <<self, call, xyz, colors>>

\* unwrap and half_unwrap: the next face of the layout is written
PlaceNet ==
    /\ pc = "place"
    /\ call.op \in NetOps
    /\ \E face \in {NetOrder[Len(placed) + 1]} :
       \E at \in {NetPlacement(self, call.op = "half_unwrap", face)} :
       \E xy \in {get_pentagon_coords(self, self.resolution, at.is_up,
                                        FALSE, FALSE, FALSE)} :
       \E w \in {WriteFace(canvases[at.canvas], xy, at.x, at.y, colors[face + 1])} :
           IF IsError(w)
           THEN Raise(w) /\ UNCHANGED <<canvases, placed>>
           ELSE /\ canvases' = [canvases EXCEPT ![at.canvas] = w.value]
                /\ placed' = Append(placed, <<face, at.canvas>>)
                /\ pc' = IF Len(placed) + 1 = Len(NetOrder) THEN "return" ELSE "place"
                /\ UNCHANGED ret
    /\ UNCHANGED <<self, call, xyz, colors>>

\* a4_optimised_unwrap: the next face (0, 1, ..., 11) is rotated and written
PlaceA4 ==
    /\ pc = "place"
    /\ call.op = "a4_optimised_unwrap"
    /\ \E face \in {Len(placed)} :
       \E w \in {a4_place(self, canvases.canvas, face, colors[face + 1])} :
           IF IsError(w)
           THEN Raise(w) /\ UNCHANGED <<canvases, placed>>
           ELSE /\ canvases' = [canvases EXCEPT !.canvas = w.value]
                /\ placed' = Append(placed, <<face, "canvas">>)
                /\ pc' = IF face = 11 THEN "return" ELSE "place"
                /\ UNCHANGED ret
    /\ UNCHANGED <<self, call, xyz, colors>>

\* return canvas / return (canvas_lower, canvas_upper)
Return ==
    /\ pc = "return"
    /\ ret' = IF call.op = "half_unwrap"
              THEN Value(<<canvases.canvas_lower, canvases.canvas_upper>>)
              ELSE Value(canvases.canvas)
    /\ pc' = "done"
    /\ UNCHANGED <<self, call, xyz, colors, canvases, placed>>

\* the caller takes the result; the locals of the call are gone
Finish ==
    /\ pc = "done"
    /\ call' = [op |-> "idle"]
    /\ pc' = "idle"
    /\ xyz' = <<>>
    /\ colors' = <<>>
    /\ canvases' = <<>>
    /\ placed' = <<>>
    /\ ret' = [kind |-> "none"]
    /\ UNCHANGED self

Next ==
    \/ GetIsUp
    \/ GetRotation
    \/ GetPentagonCoords
    \/ GetFaceXyz
    \/ CallFace
    \/ CallUnwrap
    \/ Validate
    \/ FaceXyz
    \/ Sample
    \/ Colors
    \/ Alloc
    \/ PlaceImage
    \/ PlaceNet
    \/ PlaceA4
    \/ Return
    \/ Finish

Spec == Init /\ [][Next]_vars

\* the caller makes the call it has just made once more, with the same
\* sampler and the same arguments, still holding the first result
Repeat ==
    /\ pc = "done"
    /\ IF call.op \in ValidatedOps
       THEN pc' = FirstStatement(call.op) /\ UNCHANGED ret
       ELSE /\ pc' = "done"
            /\ ret' = CASE call.op = "get_is_up" -> Value(get_is_up(call.face_no))
                        [] call.op = "get_rotation" -> get_rotation(call.face_no)
                        [] call.op = "get_face_xyz" -> get_face_xyz(self, call.face_no)
                        [] call.op = "get_pentagon_coords" ->
                             Value(get_pentagon_coords(self, call.base_resolution, call.is_up,
                                       call.center, call.normalize, call.homogeneous))
    /\ xyz' = <<>>
    /\ colors' = <<>>
    /\ canvases' = <<>>
    /\ placed' = <<>>
    /\ UNCHANGED <<self, call>>

NextRepeat == Next \/ Repeat

SpecRepeat == Init /\ [][NextRepeat]_vars
(***************************************************************************)
(* Properties.                                                             *)
(***************************************************************************)
Returned(op) == pc = "done" /\ call.op = op

\* C1: get_is_up(face_no) returns True exactly for the faces 1, 2, 3, 4, 5
\* and 11 and False for the faces 0, 6, 7, 8, 9 and 10, whatever the sampler.
C1_IsUpTable ==
    (Returned("get_is_up") /\ call.face_no \in 0..11)
        => ret = Value(call.face_no \in {1, 2, 3, 4, 5, 11})

C1_Witness ==
    Returned("get_is_up") /\ call.face_no = 11 /\ ret = Value(TRUE)

\* C2: get_rotation(face_no) returns a value for every face 0..11: 0 for the
\* faces 0 and 11; 6, 8, 10, 12, 14 units of pi/5 for the faces 1..5; and
\* -4, -6, -8, -10, -12 units of pi/5 for the faces 6..10.
C2_RotationTable ==
    (Returned("get_rotation") /\ call.face_no \in 0..11)
        => ret = Value(<<0, 6, 8, 10, 12, 14, -4, -6, -8, -10, -12, 0>>[call.face_no + 1])

C2_Witness ==
    Returned("get_rotation") /\ call.face_no = 10 /\ ret = Value(-12)

\* C3: the sampler has exactly 12 faces of 5 pairwise distinct vertex
\* indices each, every index below the number of vertices get_vertices
\* makes, which is 20 (5 + 5 + 10 reflections), and the face table is the
\* fixed table.
C3_FaceTable ==
    /\ Len(self.faces) = 12
    /\ Len(self.vertices) = 20
    /\ Cardinality({i \in 1..20 : self.vertices[i].sign = 1 /\ self.vertices[i].ring = "y0"}) = 5
    /\ Cardinality({i \in 1..20 : self.vertices[i].sign = 1 /\ self.vertices[i].ring = "y5"}) = 5
    /\ Cardinality({i \in 1..20 : self.vertices[i].sign = -1}) = 10
    /\ Cardinality({self.vertices[i] : i \in 1..20}) = 20
    /\ \A f \in 1..12 :
         /\ Len(self.faces[f]) = 5
         /\ Cardinality({self.faces[f][i] : i \in 1..5}) = 5
         /\ \A i \in 1..5 : self.faces[f][i] \in 0..(Len(self.vertices) - 1)
    /\ self.faces[1] = <<0, 1, 2, 3, 4>> /\ self.faces[2] = <<0, 5, 11, 6, 1>>
    /\ self.faces[3] = <<1, 6, 10, 7, 2>> /\ self.faces[4] = <<2, 7, 14, 8, 3>>
    /\ self.faces[5] = <<3, 8, 13, 9, 4>> /\ self.faces[6] = <<4, 9, 12, 5, 0>>
    /\ self.faces[7] = <<15, 10, 7, 14, 19>> /\ self.faces[8] = <<19, 14, 8, 13, 18>>
    /\ self.faces[9] = <<18, 13, 9, 12, 17>> /\ self.faces[10] = <<17, 12, 5, 11, 16>>
    /\ self.faces[11] = <<16, 11, 6, 10, 15>> /\ self.faces[12] = <<19, 18, 17, 16, 15>>

C3_Witness ==
    /\ Returned("get_face_xyz") /\ call.face_no = 11 /\ ret.kind = "value"
    /\ ret.value.vertex_xyz = [i \in 1..5 |-> self.vertices[20 - i + 1]]

\* C4: in get_face_rgb, for every mask pixel, whatever the computed pixel
\* coordinates (negative, or beyond the image), the row index used to read
\* the panorama lies in [0, height) and the column index in [0, width).
C4_SampleInBounds ==
    (pc = "sample") =>
        \A k \in 1..Len(xyz.points) :
            LET idx == SampleIndex(xyz.points[k], xyz.euler, call.eq_image,
                                   call.rotation_offset)
            IN  /\ 0 <= idx[1] /\ idx[1] < call.eq_image.shape[1]
                /\ 0 <= idx[2] /\ idx[2] < call.eq_image.shape[2]

C4_Witness ==
    /\ Returned("get_face_rgb") /\ ret.kind = "value"
    /\ \E k \in 1..Len(xyz.points) :
         RawIndex(xyz.points[k], xyz.euler, call.eq_image, call.rotation_offset)[2] < 0
    /\ \E k \in 1..Len(xyz.points) :
         RawIndex(xyz.points[k], xyz.euler, call.eq_image, call.rotation_offset)[1]
            >= call.eq_image.shape[1]

\* C5: when the panorama fails the shape validation, each of get_face_rgb,
\* get_face_image, unwrap, half_unwrap and a4_optimised_unwrap fails with
\* the validation error as its first step: no face has been projected or
\* sampled and no canvas allocated or written.
C5_ValidationFirst ==
    (call.op \in ValidatedOps /\ ~check_eq_image_shape(call.eq_image) /\ pc # "validate")
        => /\ pc = "done"
           /\ ret = Error("ShapeValidationError")
           /\ xyz = <<>> /\ colors = <<>> /\ canvases = <<>> /\ placed = <<>>

C5_Witness ==
    /\ Returned("a4_optimised_unwrap")
    /\ call.eq_image.shape = <<1, 2 * MaxPanoHeight>>
    /\ ret = Error("ShapeValidationError")

\* C6: get_face_xyz, get_face_rgb and get_face_image called with a face
\* index outside 0..11 (12 and above, or negative) fail with an IndexError.
C6_InvalidFaceIsIndexError ==
    ( /\ pc = "done"
      /\ call.op \in {"get_face_xyz", "get_face_rgb", "get_face_image"}
      /\ call.face_no \notin 0..11
      /\ (call.op = "get_face_xyz" \/ check_eq_image_shape(call.eq_image)) )
        => ret = Error("IndexError")

\* the pixels <<row, col>> the masks of the faces fs cover in a layout of
\* unwrap (half = FALSE) or half_unwrap: mask coordinates plus the offsets
MaskPixels(s, half, fs) ==
    UNION { LET at == NetPlacement(s, half, f)
                xy == get_pentagon_coords(s, s.resolution, at.is_up, FALSE, FALSE, FALSE)
            IN  { << xy[k].y + at.y, xy[k].x + at.x >> : k \in 1..Len(xy) } : f \in fs }

Pixels(canvas) == (0..(canvas.shape[1] - 1)) \X (0..(canvas.shape[2] - 1))

\* C7: after unwrap on a valid panorama a canvas pixel has alpha 255 if and
\* only if it is in the union of the twelve masks, each moved by the offsets
\* of its face; every other pixel has alpha 0 and colour 0.
C7_AlphaExactlyOnMasks ==
    (Returned("unwrap") /\ ret.kind = "value") =>
        \A p \in Pixels(ret.value) :
            /\ (At(ret.value, p[1], p[2])[4] = 255) <=> (p \in MaskPixels(self, FALSE, 0..11))
            /\ (p \notin MaskPixels(self, FALSE, 0..11)) => (At(ret.value, p[1], p[2]) = Zero4)

\* C8: after a4_optimised_unwrap on a valid panorama every canvas pixel at
\* which a face pixel was placed has alpha 255 and every other pixel is zero.
C8_PlacedAlphaOpaque ==
    (Returned("a4_optimised_unwrap") /\ ret.kind = "value") =>
        \A p \in Pixels(ret.value) :
            IF p \in DOMAIN ret.value.data
            THEN ret.value.data[p][4] = 255
            ELSE At(ret.value, p[1], p[2]) = Zero4

\* C9: half_unwrap makes two canvases of int(2 pentagon_h + h) rows and
\* int(2 pentagon_l + resolution) columns and returns (lower, upper); the
\* faces 0..5 are written to the lower canvas only, the faces 6..11 to the
\* upper canvas only, and each of the twelve faces is written exactly once.
C9_HalfNetCanvases ==
    (call.op = "half_unwrap") =>
        LET size == << Trunc(2 * self.pentagon_h * FP + self.h, FP),
                       2 * self.pentagon_l + self.resolution >>
            face(k) == placed[k][1]
        IN  /\ \A k \in 1..Len(placed) :
                 /\ face(k) \in 0..11
                 /\ placed[k][2] = IF face(k) <= 5 THEN "canvas_lower" ELSE "canvas_upper"
                 /\ \A j \in 1..Len(placed) : (face(j) = face(k)) => (j = k)
            /\ (canvases # <<>>) =>
                 /\ canvases.canvas_lower.shape = size
                 /\ canvases.canvas_upper.shape = size
                 /\ \A p \in DOMAIN canvases.canvas_lower.data \cup DOMAIN canvases.canvas_upper.data :
                      p \in Pixels(canvases.canvas_lower)
            /\ (pc = "done" /\ ret.kind = "value") =>
                 /\ {face(k) : k \in 1..Len(placed)} = 0..11
                 /\ ret.value = << canvases.canvas_lower, canvases.canvas_upper >>
                 /\ Cardinality(DOMAIN ret.value[1].data)
                      <= Cardinality(MaskPixels(self, TRUE, 0..5))
                 /\ Cardinality(DOMAIN ret.value[2].data)
                      <= Cardinality(MaskPixels(self, TRUE, 6..11))

C9_Witness ==
    /\ Returned("half_unwrap") /\ ret.kind = "value"
    /\ Len(placed) = 12
    /\ ret.value[1].data # ret.value[2].data

\* C10: the canvas of unwrap has int(2 pentagon_h + h) rows and
\* int(3 (pentagon_l + resolution) + l) columns of 4 channels, for the
\* constants the sampler has from its construction, whatever the panorama
\* and the rotation offset.
C10_UnwrapCanvasSize ==
    (call.op = "unwrap") =>
        LET size == << Trunc(2 * self.pentagon_h * FP + self.h, FP),
                       Trunc(3 * (self.pentagon_l + self.resolution) * FP + self.l, FP) >>
        IN  /\ (canvases # <<>>) => (canvases.canvas.shape = size)
            /\ (pc = "done" /\ ret.kind = "value") =>
                 /\ ret.value.shape = size
                 /\ \A p \in Pixels(ret.value) : Len(At(ret.value, p[1], p[2])) = 4

C10_Witness ==
    /\ Returned("unwrap") /\ ret.kind = "value"
    /\ self.resolution = 3
    /\ call.rotation_offset # 0
    /\ ret.value.shape = <<10, 21>>

\* C11: no step of a call changes the sampler or the arguments of the call,
\* panorama included, and a call repeated with the same inputs returns what
\* the first call returned.
C11_NoHiddenState ==
    [][ /\ self' = self
        /\ (call.op # "idle" /\ call'.op # "idle") => (call' = call)
        /\ (ret.kind # "none" /\ pc' = "done") => (ret' = ret) ]_vars

C11_Witness ==
    /\ call.op = "a4_optimised_unwrap"
    /\ pc = "place" /\ Len(placed) = 11
    /\ ret.kind = "value"

\* the canvas pixels <<canvas, row, col>> a layout writes for one face
FaceTargets(s, op, f) ==
    IF op = "a4_optimised_unwrap"
    THEN LET at == A4Placement(s, f)
             xy == get_pentagon_coords(s, s.resolution, at.rotated_is_up, FALSE, FALSE, FALSE)
         IN  { << "canvas", WrapIndex(xy[k].y + at.y, a4_shape(s)[1]),
                            WrapIndex(xy[k].x + at.x, a4_shape(s)[2]) >> : k \in 1..Len(xy) }
    ELSE LET at == NetPlacement(s, op = "half_unwrap", f)
             xy == get_pentagon_coords(s, s.resolution, at.is_up, FALSE, FALSE, FALSE)
             sh == IF op = "half_unwrap" THEN half_unwrap_shape(s) ELSE unwrap_shape(s)
         IN  { << at.canvas, WrapIndex(xy[k].y + at.y, sh[1]),
                             WrapIndex(xy[k].x + at.x, sh[2]) >> : k \in 1..Len(xy) }

RECURSIVE UnwrapInOrder(_, _, _, _)
\* the canvas of unwrap when the faces are written in the given order
UnwrapInOrder(s, canvas, order, cols) ==
    IF order = <<>> THEN canvas
    ELSE Bind(NetPlacement(s, FALSE, Head(order)), LAMBDA at :
         Bind(get_pentagon_coords(s, s.resolution, at.is_up, FALSE, FALSE, FALSE), LAMBDA xy :
         Bind(WriteFace(canvas, xy, at.x, at.y, cols[Head(order) + 1]), LAMBDA w :
              UnwrapInOrder(s, w.value, Tail(order), cols))))

\* C12: in unwrap, half_unwrap and a4_optimised_unwrap the pixel sets written
\* by two distinct faces are disjoint, and the canvas of unwrap is the same
\* when the twelve faces are written in another order (here: the reverse).
C12_FacesDisjoint ==
    ( /\ pc = "done" /\ ret.kind = "value"
      /\ call.op \in {"unwrap", "half_unwrap", "a4_optimised_unwrap"} ) =>
        /\ \A f \in 0..11 : \A g \in (f + 1)..11 :
              FaceTargets(self, call.op, f) \cap FaceTargets(self, call.op, g) = {}
        /\ (call.op = "unwrap") =>
              UnwrapInOrder(self, Zeros(unwrap_shape(self)[1], unwrap_shape(self)[2]),
                            [i \in 1..12 |-> NetOrder[13 - i]], colors) = ret.value

\* C13: get_pentagon_coords(e, ...) returns the mask of the pentagon of
\* edge e, which is the mask a sampler constructed with resolution e has,
\* whatever the resolution of the sampler it is called on; on the same
\* sampler the mask for the edge 2e has more pixels (about four times as many).
C13_MaskFollowsArgument ==
    (Returned("get_pentagon_coords") /\ ret.kind = "value") =>
        /\ ret.value = get_pentagon_coords(DodecahedralSampler(call.base_resolution),
                           call.base_resolution, call.is_up, call.center,
                           call.normalize, call.homogeneous)
        /\ Len(ret.value)
             < Len(get_pentagon_coords(self, 2 * call.base_resolution, call.is_up,
                                       call.center, call.normalize, call.homogeneous))

\* the mask of the orientation get_is_up(f), as pixel coordinates
OwnMask(s, f) == get_pentagon_coords(s, s.resolution, get_is_up(f), FALSE, FALSE, FALSE)

\* C14: get_face_rgb(f) returns one colour per pixel of the mask of
\* orientation get_is_up(f), in the order of that mask, and get_face_image,
\* unwrap and half_unwrap write the colours of face f through the mask of
\* the same orientation: the counts agree (no ValueError) and the k-th colour
\* is written to the k-th mask pixel moved by the offsets of the face.
C14_ColoursThroughOwnMask ==
    [][ /\ (call.op = "get_face_rgb" /\ pc = "sample" /\ ret'.kind = "value") =>
             \A m \in {OwnMask(self, call.face_no)},
                c \in {get_pentagon_coords(self, self.resolution, get_is_up(call.face_no),
                                           TRUE, TRUE, TRUE)} :
                 /\ Len(ret'.value) = Len(m)
                 /\ \A k \in 1..Len(m) :
                      /\ c[k].x = m[k].x - self.pentagon_l \div 2
                      /\ xyz.points[k].x
                           = Trunc(c[k].x * (2 * self.l + self.resolution * FP), c[k].den)
                      /\ LET idx == SampleIndex(xyz.points[k], xyz.euler, call.eq_image,
                                                call.rotation_offset)
                         IN  ret'.value[k] = ImagePixel(call.eq_image, idx[1], idx[2])
        /\ (call.op \in {"get_face_image", "unwrap", "half_unwrap"}
              /\ Len(placed') = Len(placed) + 1) =>
             \A f \in {placed'[Len(placed')][1]} :
             \A m    \in {OwnMask(self, f)},
                cols \in {IF call.op = "get_face_image" THEN colors ELSE colors[f + 1]},
                at   \in {IF call.op = "get_face_image" THEN [x |-> 0, y |-> 0]
                          ELSE [x |-> NetPlacement(self, call.op = "half_unwrap", f).x,
                                y |-> NetPlacement(self, call.op = "half_unwrap", f).y]},
                cv   \in {canvases'[placed'[Len(placed')][2]]} :
                 /\ Len(cols) = Len(m)
                 /\ \A k \in 1..Len(m) :
                      At(cv, WrapIndex(m[k].y + at.y, cv.shape[1]),
                             WrapIndex(m[k].x + at.x, cv.shape[2]))
                        = << cols[k][3], cols[k][2], cols[k][1], 255 >>
        /\ (call.op \in {"get_face_image", "unwrap", "half_unwrap"} /\ pc = "place") =>
             (ret' # Error("ValueError"))
      ]_vars

C14_Witness ==
    /\ call.op = "unwrap" /\ pc = "place"
    /\ Len(placed) = 7 /\ placed[7] = <<11, "canvas">>
    /\ \E k \in 1..Len(OwnMask(self, 11)) :
         /\ colors[12][k] # colors[12][1]
         /\ At(canvases.canvas,
               OwnMask(self, 11)[k].y + NetPlacement(self, FALSE, 11).y,
               OwnMask(self, 11)[k].x + NetPlacement(self, FALSE, 11).x)
              = << colors[12][k][3], colors[12][k][2], colors[12][k][1], 255 >>

\* the coordinates of xy moved by the offsets are indices 0 <= row < rows and
\* 0 <= col < cols
InRange(xy, x_offset, y_offset, rows, cols) ==
    \A k \in 1..Len(xy) :
        /\ 0 <= xy[k].y + y_offset /\ xy[k].y + y_offset < rows
        /\ 0 <= xy[k].x + x_offset /\ xy[k].x + x_offset < cols

\* C15: in unwrap, half_unwrap and a4_optimised_unwrap, for every face, no
\* truncated offset is negative and every target index is inside the canvas;
\* every index written or read in the padded square of rotate_face_rgb is
\* in [0, 2 circumradius).
C15_TargetsInRange ==
    (pc = "place" /\ call.op \in {"unwrap", "half_unwrap", "a4_optimised_unwrap"}) =>
        \A f \in 0..11 :
            IF call.op = "a4_optimised_unwrap"
            THEN \A at \in {A4Placement(self, f)},
                    xy_own \in {OwnMask(self, f)},
                    padding_top \in {Trunc(self.circumradius * FP - self.height_to_centre, FP)},
                    padding_left \in {Trunc(2 * self.circumradius * FP - self.pentagon_l * FP,
                                            2 * FP)} :
                 \A xy \in {get_pentagon_coords(self, self.resolution, at.rotated_is_up,
                                                FALSE, FALSE, FALSE)} :
                    /\ at.x >= 0 /\ at.y >= 0
                    /\ InRange(xy, at.x, at.y, canvases.canvas.shape[1],
                               canvases.canvas.shape[2])
                    /\ InRange(xy_own, padding_left, IF get_is_up(f) THEN 0 ELSE padding_top,
                               2 * self.circumradius, 2 * self.circumradius)
                    /\ InRange(xy, padding_left, IF at.rotated_is_up THEN 0 ELSE padding_top,
                               2 * self.circumradius, 2 * self.circumradius)
            ELSE \A at \in {NetPlacement(self, call.op = "half_unwrap", f)} :
                 \A xy \in {get_pentagon_coords(self, self.resolution, at.is_up,
                                                FALSE, FALSE, FALSE)} :
                    /\ at.x >= 0 /\ at.y >= 0
                    /\ InRange(xy, at.x, at.y, canvases[at.canvas].shape[1],
                               canvases[at.canvas].shape[2])

\* the canvas after one face of a4_optimised_unwrap was turned by the helper
\* called with is_up and moved through the mask of orientation flag
A4Placed(s, canvas, rgb, rotation_deg, is_up, flag, x, y) ==
    Bind(get_pentagon_coords(s, s.resolution, flag, FALSE, FALSE, FALSE), LAMBDA xy :
    Bind(rotate_face_rgb(s, rgb, rotation_deg, is_up), LAMBDA turned :
         IF IsError(turned) THEN turned
         ELSE Bind(ReadPixels(turned.value, xy,
                              Trunc(2 * s.circumradius * FP - s.pentagon_l * FP, 2 * FP),
                              IF flag THEN 0
                              ELSE Trunc(s.circumradius * FP - s.height_to_centre, FP)),
                   LAMBDA rgba : IF IsError(rgba) THEN rgba
                                 ELSE WritePixels(canvas, xy, x, y, rgba.value))))

\* C16: a4_optimised_unwrap places the faces 0..11 one after the other, each
\* exactly once; the rotation helper is called with get_is_up(face); every
\* angle is a multiple of 36 degrees; the mask used to extract and place the
\* face has the orientation get_is_up(face) after an even multiple of 36
\* degrees and the opposite one after an odd multiple (face 0: angle 0).
C16_A4RotationParity ==
    [][ (call.op = "a4_optimised_unwrap" /\ pc = "place") =>
          \A f \in {Len(placed)}, at \in {A4Placement(self, Len(placed))} :
          \A k \in {at.rotation \div 36} :
          \A flag \in {IF k % 2 = 0 THEN get_is_up(f) ELSE ~get_is_up(f)} :
          \A w \in {A4Placed(self, canvases.canvas, colors[f + 1], 36 * k, get_is_up(f),
                             flag, at.x, at.y)} :
             /\ f \in 0..11
             /\ \A i \in 1..Len(placed) : placed[i] = <<i - 1, "canvas">>
             /\ at.rotation = 36 * k
             /\ at.rotated_is_up = flag
             /\ IF IsError(w)
                THEN ret' = w /\ pc' = "done" /\ placed' = placed
                ELSE /\ canvases'.canvas = w.value
                     /\ placed' = Append(placed, <<f, "canvas">>)
                     /\ pc' = IF Len(placed') = 12 THEN "return" ELSE "place" ]_vars

\* all twelve faces of a4_optimised_unwrap are on the canvas, face 11 after a
\* turn by 9 * 36 degrees through the inverted mask
C16_Witness ==
    /\ call.op = "a4_optimised_unwrap"
    /\ pc = "return"
    /\ {placed[i][1] : i \in 1..Len(placed)} = 0..11
    /\ Len(placed) = 12
    /\ A4Placement(self, 11).rotation = 9 * 36
    /\ get_is_up(11) /\ ~A4Placement(self, 11).rotated_is_up
    /\ \A at \in {A4Placement(self, 11)} :
       \E p \in {get_pentagon_coords(self, self.resolution, FALSE, FALSE, FALSE, FALSE)[1]} :
           At(canvases.canvas, WrapIndex(p.y + at.y, canvases.canvas.shape[1]),
              WrapIndex(p.x + at.x, canvases.canvas.shape[2]))[4] > 0

====
